---- MODULE Spec2Model ----
(***************************************************************************)
(* A model of the fixed-capacity circular byte buffer of ring_buffer.c.    *)
(*                                                                         *)
(* The RingBuffer struct is the record rb = [length, start, end, buffer];  *)
(* buffer is the storage, indexed from 0 as in C.  Every public function   *)
(* of ring_buffer.c is one action.  The variables call, ret, pre and wrap  *)
(* and trip are history variables: the call just made and its arguments,   *)
(* the value it returned, the struct before the call, the record of the    *)
(* last write that crossed the physical end of the storage, and the record *)
(* of a first write to the new buffer; scen follows the calls of main and  *)
(* owed counts the bytes accepted by the writes minus the bytes returned   *)
(* by the pops (in SpecCount only).  The buffer has one                    *)
(* owner and no synchronisation: a call is made once the previous one has  *)
(* returned (action Return, which blanks call, ret and pre).               *)
(*                                                                         *)
(* The NULL tests on the result of memcpy (lines 57, 74, 91, 155, 165)     *)
(* never fire, memcpy returns its destination; they are not modelled.      *)
(***************************************************************************)
EXTENDS Integers, Sequences, FiniteSets

VARIABLES rb, call, ret, pre, wrap, trip, scen, owed

vars == <<rb, call, ret, pre, wrap, trip, scen, owed>>

\* Largest capacity handed to RingBuffer_create.
MaxCap == 3

\* Bytes are 0..MaxByte; calloc fills the storage with 0.
MaxByte == 1

Byte == 0..MaxByte

\* Capacities the buffer is created with.
Capacity == 1..MaxCap

\* Lengths a caller passes for a buffer of capacity len: one more than the
\* capacity is enough to reach every rejection and every clamp.
Lengths(len) == 0..(len + 1)

\* The caller's data of exactly n bytes.
Data(n) == [1..n -> Byte]

\* The % operator of C on int: the quotient truncates towards zero.
CMod(a, m) == IF a >= 0 THEN a % m ELSE -((-a) % m)

\* memcpy(dst + off, src + from, n) where dst is the storage and src the
\* caller's data (a sequence, so src + from starts at src[from + 1]).
memcpy(dst, off, src, from, n) ==
    [i \in DOMAIN dst |->
        IF i >= off /\ i < off + n THEN src[from + (i - off) + 1] ELSE dst[i]]

\* The struct RingBuffer.
RingBuffer(len, s, e, buf) ==
    [length |-> len, start |-> s, end |-> e, buffer |-> buf]

RingBuffer_create(len) ==
    RingBuffer(len, len, len, [i \in 0..(len - 1) |-> 0])

RingBuffer_used_space(b) ==
    IF b.start = b.length
    THEN 0
    ELSE CMod(b.length + b.end - b.start, b.length) + 1

RingBuffer_available_space_short(b) ==
    IF b.start = b.length
    THEN b.length
    ELSE b.length - CMod(b.length + b.end - b.start, b.length)

RingBuffer_available_space(b) ==
    IF b.start = b.length
    THEN b.length
    ELSE b.length - (CMod(b.length + b.end - b.start, b.length) + 1)

\* Line 239 without the - 1.
RingBuffer_dist_to_end_long(b) ==
    IF b.start = b.length
    THEN b.length
    ELSE IF b.start > b.end
         THEN b.start - b.end - 1
         ELSE b.length - b.end

RingBuffer_dist_to_end(b) ==
    IF b.start = b.length
    THEN b.length
    ELSE IF b.start > b.end
         THEN b.start - b.end - 1
         ELSE b.length - b.end - 1

\* The values a call returns: an int for write and safe_write, a pointer
\* (NULL or the popped bytes) for pop, nothing for create and clear.
IntRet(n) == [null |-> FALSE, n |-> n, data |-> <<>>]

NullRet == [null |-> TRUE, n |-> 0, data |-> <<>>]

PtrRet(d) == [null |-> FALSE, n |-> 0, data |-> d]

VoidRet == [null |-> FALSE, n |-> 0, data |-> <<>>]

\* Lines 80-84 and 97-101: the start index after a write of n bytes.
WriteStart_noshift(b, n, openSpace) == b.start

WriteStart(b, n, openSpace) ==
    IF n > openSpace
    THEN CMod(b.start + (n - openSpace), b.length)
    ELSE b.start

\* Line 46 with the capacity test off by one.
RingBuffer_write_latecheck(b, data, n) ==
    IF b.length + 1 < n
    THEN [b |-> b, ret |-> IntRet(-1)]
    ELSE LET openSpace == RingBuffer_available_space(b)
             physRemains == RingBuffer_dist_to_end(b)
         IN  IF b.start = b.length
             THEN [b |-> RingBuffer(b.length, 0, n - 1,
                                    memcpy(b.buffer, 0, data, 0, n)),
                   ret |-> IntRet(n)]
             ELSE IF physRemains < n
                  THEN [b |-> RingBuffer(
                                b.length,
                                WriteStart(b, n, openSpace),
                                CMod(b.end + n, b.length),
                                memcpy(memcpy(b.buffer, b.end + 1, data, 0,
                                              physRemains),
                                       0, data, physRemains,
                                       n - physRemains)),
                        ret |-> IntRet(n)]
                  ELSE [b |-> RingBuffer(
                                b.length,
                                WriteStart(b, n, openSpace),
                                b.end + n,
                                memcpy(b.buffer, b.end + 1, data, 0, n)),
                        ret |-> IntRet(n)]

\* RingBuffer_write: the struct after the call and the int it returns.
RingBuffer_write(b, data, n) ==
    IF b.length < n
    THEN [b |-> b, ret |-> IntRet(-1)]
    ELSE LET openSpace == RingBuffer_available_space(b)
             physRemains == RingBuffer_dist_to_end(b)
         IN  IF b.start = b.length
             THEN [b |-> RingBuffer(b.length, 0, n - 1,
                                    memcpy(b.buffer, 0, data, 0, n)),
                   ret |-> IntRet(n)]
             ELSE IF physRemains < n
                  THEN [b |-> RingBuffer(
                                b.length,
                                WriteStart(b, n, openSpace),
                                CMod(b.end + n, b.length),
                                memcpy(memcpy(b.buffer, b.end + 1, data, 0,
                                              physRemains),
                                       0, data, physRemains,
                                       n - physRemains)),
                        ret |-> IntRet(n)]
                  ELSE [b |-> RingBuffer(
                                b.length,
                                WriteStart(b, n, openSpace),
                                b.end + n,
                                memcpy(b.buffer, b.end + 1, data, 0, n)),
                        ret |-> IntRet(n)]

\* Lines 56, 72-73 and 90: the storage indices that the memcpy calls of a
\* write of n bytes store to.
WriteCells(b, n) ==
    LET physRemains == RingBuffer_dist_to_end(b)
    IN  IF b.length < n
        THEN {}
        ELSE IF b.start = b.length
             THEN 0..(n - 1)
             ELSE IF physRemains < n
                  THEN ((b.end + 1)..(b.end + physRemains))
                          \cup (0..(n - physRemains - 1))
                  ELSE (b.end + 1)..(b.end + n)

\* Line 117: the test with which safe_write refuses a write.
RingBuffer_safe_write_offbyone(b, data, n) ==
    IF RingBuffer_available_space(b) + 1 < n
    THEN [b |-> b, ret |-> IntRet(-1)]
    ELSE RingBuffer_write(b, data, n)

RingBuffer_safe_write_unguarded(b, data, n) ==
    RingBuffer_write(b, data, n)

RingBuffer_safe_write(b, data, n) ==
    IF RingBuffer_available_space(b) < n
    THEN [b |-> b, ret |-> IntRet(-1)]
    ELSE RingBuffer_write(b, data, n)

\* Lines 135-138: pop clamps the requested length to the used space.
PopLength(b, n) ==
    IF RingBuffer_used_space(b) < n THEN RingBuffer_used_space(b) ELSE n

\* Lines 149-170: the storage index that byte j (from 0) of the result of a
\* pop of len bytes is copied from.
PopSource(b, len, j) ==
    LET physRemains == RingBuffer_dist_to_end(b)
    IN  IF physRemains < len
        THEN IF j <= physRemains THEN b.start + j ELSE j - physRemains - 1
        ELSE b.start + j

\* The values a read of buffer[i] can give: the stored byte, or any byte
\* when i is outside the allocation (undefined behaviour).
ReadByte(b, i) ==
    IF i \in DOMAIN b.buffer THEN {b.buffer[i]} ELSE Byte

\* Lines 171-178 without the test for the buffer popped empty.
PopIndices_nocollapse(b, len) ==
    [start |-> CMod(b.start + len, b.length), end |-> b.end]

\* Lines 171-178 without line 172.
PopIndices_nomod(b, len) ==
    LET s == b.start + len
    IN  IF len # 0 /\ s = b.end + 1
        THEN [start |-> b.length, end |-> b.length]
        ELSE [start |-> s, end |-> b.end]

\* Lines 171-178: the indices after len bytes were popped.
PopIndices(b, len) ==
    LET s == CMod(b.start + len, b.length)
    IN  IF len # 0 /\ s = b.end + 1
        THEN [start |-> b.length, end |-> b.length]
        ELSE [start |-> s, end |-> b.end]

\* calloc(len, 1): with len = 0 the result may be NULL or a unique pointer.
calloc(len, d) ==
    IF len = 0 THEN {NullRet, PtrRet(d)} ELSE {PtrRet(d)}

\* RingBuffer_pop without the test of lines 140-144.
RingBuffer_pop_nocheck(b, n) ==
    LET len == PopLength(b, n)
        idx == PopIndices(b, len)
        after == RingBuffer(b.length, idx.start, idx.end, b.buffer)
    IN  {[b |-> after, ret |-> r] :
           r \in UNION {calloc(len, d) :
               d \in {x \in [1..len -> Byte] :
                        \A j \in 1..len :
                           x[j] \in ReadByte(b, PopSource(b, len, j - 1))}}}

\* RingBuffer_pop: the outcomes of the call, each the struct after it and
\* the pointer it returns.
RingBuffer_pop(b, n) ==
    LET len == PopLength(b, n)
    IN  IF b.start = b.length
        THEN {[b |-> b, ret |-> NullRet]}
        ELSE LET idx == PopIndices(b, len)
                 after == RingBuffer(b.length, idx.start, idx.end, b.buffer)
             IN  {[b |-> after, ret |-> r] :
                    r \in UNION {calloc(len, d) :
                        d \in {x \in [1..len -> Byte] :
                                 \A j \in 1..len :
                                    x[j] \in ReadByte(b, PopSource(b, len, j - 1))}}}

\* A clear that sends the indices to 0 instead of length.
RingBuffer_clear_tozero(b) ==
    RingBuffer(b.length, 0, 0, b.buffer)

RingBuffer_clear(b) ==
    RingBuffer(b.length, b.length, b.length, b.buffer)

\* A write of n bytes that takes the wrap branch of RingBuffer_write (lines
\* 68-73) from start <= end with room left at the top: the first bytes of the
\* data go to the top indices, the rest to index 0 onwards.
CrossesEnd(b, n) ==
    /\ n <= b.length
    /\ b.start # b.length
    /\ b.start <= b.end
    /\ RingBuffer_dist_to_end(b) >= 1
    /\ RingBuffer_dist_to_end(b) < n

NoWrap == [state |-> "none", at |-> 0, D |-> <<>>]

\* The record of the last write that crossed the end, after a write.
WrapAfterWrite(b, data, n, r) ==
    IF r.ret.n = -1
    THEN wrap
    ELSE IF CrossesEnd(b, n)
         THEN [state |-> "stored", at |-> b.end + 1, D |-> data]
         ELSE NoWrap

\* The same after a pop of n bytes: the record is kept while only older bytes
\* are popped, and marked "popped" by the pop that asks for exactly the
\* recorded bytes once no older byte is left.
WrapAfterPop(b, n) ==
    IF wrap.state # "stored" \/ b.start = b.length
    THEN NoWrap
    ELSE IF b.start = wrap.at
         THEN IF n = Len(wrap.D)
              THEN [wrap EXCEPT !.state = "popped"]
              ELSE IF PopLength(b, n) = 0 THEN wrap ELSE NoWrap
         ELSE IF PopLength(b, n) <= CMod(b.length + wrap.at - b.start, b.length)
              THEN wrap
              ELSE NoWrap

\* The first call on the new buffer, when it is a write of n >= 1 bytes that
\* is accepted, is recorded; so is the pop that follows it at once and asks
\* for the same number of bytes.
Fresh == [state |-> "fresh", D |-> <<>>]

TripOff == [state |-> "off", D |-> <<>>]

TripAfterWrite(data, n, r) ==
    IF trip.state = "fresh" /\ n >= 1 /\ r.ret.n = n
    THEN [state |-> "written", D |-> data]
    ELSE TripOff

TripAfterPop(n) ==
    IF trip.state = "written" /\ n = Len(trip.D)
    THEN [trip EXCEPT !.state = "popped"]
    ELSE TripOff

\* The calls of main (main.c:17-33), for any bytes a, b, x, y in place of
\* the letters: create(3), safe_write of a, safe_write of a,b, write of x,y,
\* pop(2), pop(2).  step is the number of these calls made so far, 0 once a
\* call departs from them.
ScenOff == [step |-> 0, a |-> 0, b |-> 0, x |-> 0, y |-> 0]

ScenAfterCreate(len) ==
    IF len = 3 THEN [ScenOff EXCEPT !.step = 1] ELSE ScenOff

ScenAfterSafeWrite(data, n) ==
    IF scen.step = 1 /\ n = 1
    THEN [scen EXCEPT !.step = 2, !.a = data[1]]
    ELSE IF scen.step = 2 /\ n = 2 /\ data[1] = scen.a
         THEN [scen EXCEPT !.step = 3, !.b = data[2]]
         ELSE ScenOff

ScenAfterWrite(data, n) ==
    IF scen.step = 3 /\ n = 2
    THEN [scen EXCEPT !.step = 4, !.x = data[1], !.y = data[2]]
    ELSE ScenOff

ScenAfterPop(n) ==
    IF scen.step \in {4, 5} /\ n = 2
    THEN [scen EXCEPT !.step = scen.step + 1]
    ELSE ScenOff

\* The count of bytes is kept while it is within -CountMax..CountMax.
CountMax == 4

\* Largest capacity of the buffers on which the bytes are counted.
CountCap == 2

Untracked == [on |-> FALSE, n |-> 0]

OwedAfter(delta) ==
    IF owed.on /\ owed.n + delta >= -CountMax /\ owed.n + delta <= CountMax
    THEN [on |-> TRUE, n |-> owed.n + delta]
    ELSE Untracked

\* Between two calls nothing is recorded of the last one.
NoCall == [op |-> "none", n |-> 0, data |-> <<>>]

Init ==
    /\ \E len \in Capacity :
          /\ rb = RingBuffer_create(len)
          /\ call = [op |-> "create", n |-> len, data |-> <<>>]
          /\ scen = ScenAfterCreate(len)
    /\ ret = VoidRet
    /\ pre = rb
    /\ wrap = NoWrap
    /\ trip = Fresh
    /\ owed = Untracked

\* The same with the bytes counted, on the capacities up to CountCap.
InitCount ==
    /\ \E len \in 1..CountCap :
          /\ rb = RingBuffer_create(len)
          /\ call = [op |-> "create", n |-> len, data |-> <<>>]
          /\ scen = ScenAfterCreate(len)
    /\ ret = VoidRet
    /\ pre = rb
    /\ wrap = NoWrap
    /\ trip = Fresh
    /\ owed = [on |-> TRUE, n |-> 0]

Write ==
    /\ call = NoCall
    /\ \E n \in Lengths(rb.length) : \E data \in Data(n) :
          LET r == RingBuffer_write(rb, data, n)
          IN  /\ rb' = r.b
              /\ ret' = r.ret
              /\ call' = [op |-> "write", n |-> n, data |-> data]
              /\ pre' = rb
              /\ wrap' = WrapAfterWrite(rb, data, n, r)
              /\ trip' = TripAfterWrite(data, n, r)
              /\ scen' = ScenAfterWrite(data, n)
              /\ owed' = OwedAfter(IF r.ret.n = -1 THEN 0 ELSE r.ret.n)

SafeWrite ==
    /\ call = NoCall
    /\ \E n \in Lengths(rb.length) : \E data \in Data(n) :
          LET r == RingBuffer_safe_write(rb, data, n)
          IN  /\ rb' = r.b
              /\ ret' = r.ret
              /\ call' = [op |-> "safe_write", n |-> n, data |-> data]
              /\ pre' = rb
              /\ wrap' = WrapAfterWrite(rb, data, n, r)
              /\ trip' = TripOff
              /\ scen' = ScenAfterSafeWrite(data, n)
              /\ owed' = OwedAfter(IF r.ret.n = -1 THEN 0 ELSE r.ret.n)

Pop ==
    /\ call = NoCall
    /\ \E n \in Lengths(rb.length) : \E r \in RingBuffer_pop(rb, n) :
          /\ rb' = r.b
          /\ ret' = r.ret
          /\ call' = [op |-> "pop", n |-> n, data |-> <<>>]
          /\ pre' = rb
          /\ wrap' = WrapAfterPop(rb, n)
          /\ trip' = TripAfterPop(n)
          /\ scen' = ScenAfterPop(n)
          /\ owed' = OwedAfter(-Len(r.ret.data))

Clear ==
    /\ call = NoCall
    /\ rb' = RingBuffer_clear(rb)
    /\ ret' = VoidRet
    /\ call' = [op |-> "clear", n |-> 0, data |-> <<>>]
    /\ pre' = rb
    /\ wrap' = NoWrap
    /\ trip' = TripOff
    /\ scen' = ScenOff
    /\ UNCHANGED owed

\* The call is over: the caller has its result and may make the next call
\* (single owner, one call at a time).  The struct is left as it is.
Return ==
    /\ call # NoCall
    /\ call' = NoCall
    /\ ret' = VoidRet
    /\ pre' = rb
    /\ wrap' = IF wrap.state = "popped" THEN NoWrap ELSE wrap
    /\ trip' = IF trip.state = "popped" THEN TripOff ELSE trip
    /\ UNCHANGED <<rb, scen, owed>>

Next == Write \/ SafeWrite \/ Pop \/ Clear \/ Return

Spec == Init /\ [][Next]_vars

SpecCount == InitCount /\ [][Next]_vars

(***************************************************************************)
(* The properties.  They are stated on the state right after a call: pre   *)
(* is the struct before it, rb the struct after it, ret what it returned.  *)
(***************************************************************************)

Min(a, b) == IF a < b THEN a ELSE b

\* The buffer is not empty: the code tests start against length only.
NonEmpty(b) == b.start # b.length

\* The logical content: storage[start], storage[(start+1) mod capacity], ...
\* used_space(b) bytes in all, the oldest first.
Content(b) ==
    [i \in 1..RingBuffer_used_space(b) |->
        b.buffer[CMod(b.start + (i - 1), b.length)]]

\* The storage cells that hold the unread bytes.
UnreadCells(b) ==
    {CMod(b.start + (i - 1), b.length) : i \in 1..RingBuffer_used_space(b)}

\* C1: a pop of length >= 1 bytes from a non-empty buffer returns the first
\* min(length, used_space) bytes of the logical content, oldest first.
C1_PopReturnsOldest ==
    (call.op = "pop" /\ NonEmpty(pre) /\ call.n >= 1)
        => /\ ~ret.null
           /\ ret.data = SubSeq(Content(pre), 1,
                                Min(call.n, RingBuffer_used_space(pre)))

\* C2: write(b, D, k) as the first call on a new buffer, 1 <= k <= capacity,
\* followed by pop(b, k), returns exactly D.
C2_RoundTrip ==
    trip.state = "popped" => (~ret.null /\ ret.data = trip.D)

\* C3: when a write or safe_write stored D across the physical end of the
\* storage and every older unread byte has been popped, pop(b, len(D))
\* returns exactly D.
C3_WrapRoundTrip ==
    wrap.state = "popped" => (~ret.null /\ ret.data = wrap.D)

\* C4: a pop of more bytes than are used, from a non-empty buffer, returns
\* exactly used_space bytes and leaves the buffer empty.
C4_OverPopEmpties ==
    (call.op = "pop" /\ NonEmpty(pre) /\ call.n > RingBuffer_used_space(pre))
        => /\ ~ret.null
           /\ Len(ret.data) = RingBuffer_used_space(pre)
           /\ rb.start = rb.length
           /\ rb.end = rb.length
           /\ RingBuffer_used_space(rb) = 0
           /\ RingBuffer_available_space(rb) = rb.length

\* C5: after a write of length bytes to a non-empty buffer with
\* available_space < length <= capacity, the logical content is the previous
\* one without its oldest (length - available_space) bytes, followed by D.
C5_OverwriteContent ==
    (/\ call.op = "write"
     /\ NonEmpty(pre)
     /\ RingBuffer_available_space(pre) < call.n
     /\ call.n <= pre.length)
        => Content(rb) =
              SubSeq(Content(pre),
                     call.n - RingBuffer_available_space(pre) + 1,
                     RingBuffer_used_space(pre)) \o call.data

\* C6: after a write of length bytes with available_space < length <=
\* capacity, used_space is min(used_space before + length, capacity): the
\* buffer is exactly full.
C6_OverwriteAccounting ==
    (/\ call.op = "write"
     /\ RingBuffer_available_space(pre) < call.n
     /\ call.n <= pre.length)
        => /\ RingBuffer_used_space(rb) =
                 Min(RingBuffer_used_space(pre) + call.n, pre.length)
           /\ RingBuffer_used_space(rb) = rb.length

\* An overwriting write that drops a part of the unread bytes only.
C6_Witness ==
    /\ call.op = "write"
    /\ RingBuffer_available_space(pre) < call.n
    /\ call.n < pre.length
    /\ RingBuffer_available_space(pre) >= 1
    /\ rb.start # pre.start

\* C7: after any sequence of calls either start = end = capacity (empty) or
\* both indices are in 0..capacity-1.  (A write of more than capacity bytes
\* changes nothing and a pop of more than capacity bytes is the pop of
\* capacity bytes, so the lengths above capacity reach no further struct.)
C7_IndexRange ==
    \/ (rb.start = rb.length /\ rb.end = rb.length)
    \/ /\ 0 <= rb.start /\ rb.start < rb.length
       /\ 0 <= rb.end /\ rb.end < rb.length

\* C8: in every reachable state used_space + available_space = capacity.
C8_SpaceSum ==
    RingBuffer_used_space(rb) + RingBuffer_available_space(rb) = rb.length

\* A write has left a buffer that is neither empty nor full, its content
\* running over the physical end.
C8_Witness ==
    /\ call.op = "write"
    /\ NonEmpty(rb)
    /\ rb.end >= 0
    /\ rb.start > rb.end + 1

\* C9: safe_write of length > available_space returns -1 and leaves start,
\* end and every storage byte as they were.
C9_SafeWriteRejects ==
    (call.op = "safe_write" /\ RingBuffer_available_space(pre) < call.n)
        => (ret = IntRet(-1) /\ rb = pre)

\* A safe_write that would fit the capacity is refused by a buffer that has
\* unread bytes and free room.
C9_Witness ==
    /\ call.op = "safe_write"
    /\ NonEmpty(pre)
    /\ RingBuffer_available_space(pre) >= 1
    /\ RingBuffer_available_space(pre) < call.n
    /\ call.n <= pre.length
    /\ ret = IntRet(-1)

\* C10: after a successful safe_write the previous logical content is a
\* prefix of the new one: no cell of an unread byte was written and start
\* skipped none.
C10_SafeWriteKeepsUnread ==
    (call.op = "safe_write" /\ ret.n # -1)
        => /\ RingBuffer_used_space(rb) >= RingBuffer_used_space(pre)
           /\ SubSeq(Content(rb), 1, RingBuffer_used_space(pre)) = Content(pre)
           /\ \A i \in UnreadCells(pre) : rb.buffer[i] = pre.buffer[i]
           /\ NonEmpty(pre) => rb.start = pre.start

\* A successful safe_write to a non-empty buffer that had to wrap.
C10_Witness ==
    /\ call.op = "safe_write"
    /\ ret.n >= 2
    /\ NonEmpty(pre)
    /\ pre.end >= 0
    /\ rb.end < pre.end

\* C11: a write of length > capacity returns -1 and leaves start, end and
\* every storage byte as they were.
C11_WriteRejects ==
    (call.op = "write" /\ call.n > pre.length)
        => (ret = IntRet(-1) /\ rb = pre)

\* A write of more than capacity bytes to a buffer that holds unread bytes.
C11_Witness ==
    /\ call.op = "write"
    /\ call.n > pre.length
    /\ NonEmpty(pre)
    /\ ret = IntRet(-1)

\* C12: a pop from an empty buffer (start = capacity) returns NULL, whatever
\* the length, and leaves start, end and the storage as they were.
C12_EmptyPop ==
    (call.op = "pop" /\ pre.start = pre.length)
        => (ret = NullRet /\ rb = pre)

\* A pop of at least one byte from a buffer that was written and cleared.
C12_Witness ==
    /\ call.op = "pop"
    /\ pre.start = pre.length
    /\ call.n >= 1
    /\ \E i \in DOMAIN pre.buffer : pre.buffer[i] # 0
    /\ ret = NullRet

\* C14: clear yields used_space = 0 and available_space = capacity, and
\* changes neither the capacity nor a storage byte.
C14_Clear ==
    call.op = "clear"
        => /\ RingBuffer_used_space(rb) = 0
           /\ RingBuffer_available_space(rb) = rb.length
           /\ rb.length = pre.length
           /\ rb.buffer = pre.buffer

\* A clear of a buffer that holds unread bytes, one of them not 0.
C14_Witness ==
    /\ call.op = "clear"
    /\ NonEmpty(pre)
    /\ \E i \in UnreadCells(pre) : pre.buffer[i] # 0
    /\ RingBuffer_used_space(rb) = 0

\* C15: a write of exactly capacity bytes to a non-empty buffer succeeds and
\* overwrites all prior data: used_space is capacity and the logical content
\* is exactly D.
C15_FullRelap ==
    (call.op = "write" /\ NonEmpty(pre) /\ call.n = pre.length)
        => /\ ret = IntRet(call.n)
           /\ RingBuffer_used_space(rb) = rb.length
           /\ Content(rb) = call.data

\* C17: every storage index a pop reads is in 0..capacity-1 and holds a byte
\* of the unread content.
C17_PopReadsUnread ==
    (call.op = "pop" /\ NonEmpty(pre))
        => \A j \in 0..(PopLength(pre, call.n) - 1) :
              LET i == PopSource(pre, PopLength(pre, call.n), j)
              IN  i \in DOMAIN pre.buffer /\ i \in UnreadCells(pre)

\* C18: every storage index a write or safe_write of 0 <= length <= capacity
\* bytes stores to is in 0..capacity-1.
C18_WritesInStorage ==
    (/\ call.op \in {"write", "safe_write"}
     /\ call.n <= pre.length
     /\ ret.n # -1)
        => WriteCells(pre, call.n) \subseteq DOMAIN pre.buffer

\* A write to a non-empty buffer whose two copies both store bytes.
C18_Witness ==
    /\ call.op \in {"write", "safe_write"}
    /\ ret.n # -1
    /\ NonEmpty(pre)
    /\ RingBuffer_dist_to_end(pre) >= 1
    /\ RingBuffer_dist_to_end(pre) < call.n
    /\ pre.length - 1 \in WriteCells(pre, call.n)

\* C19: a write or safe_write of 0 bytes leaves used_space and
\* available_space as they were.
C19_ZeroWrite ==
    (call.op \in {"write", "safe_write"} /\ call.n = 0)
        => /\ RingBuffer_used_space(rb) = RingBuffer_used_space(pre)
           /\ RingBuffer_available_space(rb) = RingBuffer_available_space(pre)

\* C20: a pop of 0 <= n < used_space bytes from a non-empty buffer leaves
\* end, capacity and the storage as they were, sets start to (start + n) mod
\* capacity without emptying the buffer, and used_space drops by n.
C20_PartialPop ==
    (/\ call.op = "pop"
     /\ NonEmpty(pre)
     /\ call.n < RingBuffer_used_space(pre))
        => /\ rb.end = pre.end
           /\ rb.length = pre.length
           /\ rb.buffer = pre.buffer
           /\ rb.start = (pre.start + call.n) % pre.length
           /\ NonEmpty(rb)
           /\ RingBuffer_used_space(rb) = RingBuffer_used_space(pre) - call.n

\* A partial pop of at least one byte that takes start over the physical end.
C20_Witness ==
    /\ call.op = "pop"
    /\ NonEmpty(pre)
    /\ call.n >= 1
    /\ call.n < RingBuffer_used_space(pre)
    /\ rb.start < pre.start

\* C13: over any sequence of calls the total number of bytes returned by pop
\* never exceeds the total number of bytes accepted by write and safe_write.
C13_PopsWithinWrites ==
    owed.on => owed.n >= 0

\* C16: the scenario of main holds step by step: create(3) gives used 0 and
\* available 3; safe_write of a gives 1 and 2; safe_write of a,b gives 3 and
\* 0; write of x,y gives 3 and 0 with the content b,x,y; pop(2) returns b,x
\* and leaves 1 used; pop(2) returns y and leaves the buffer empty.
C16_Scenario ==
    LET used == RingBuffer_used_space(rb)
        avail == RingBuffer_available_space(rb)
        made == call # NoCall
    IN  /\ scen.step = 1 => (used = 0 /\ avail = 3)
        /\ scen.step = 2 => (used = 1 /\ avail = 2 /\ (made => ret = IntRet(1)))
        /\ scen.step = 3 => (used = 3 /\ avail = 0 /\ (made => ret = IntRet(2)))
        /\ scen.step = 4 =>
              /\ used = 3 /\ avail = 0
              /\ Content(rb) = <<scen.b, scen.x, scen.y>>
              /\ made => ret = IntRet(2)
        /\ scen.step = 5 =>
              /\ used = 1 /\ avail = 2
              /\ made => ret = PtrRet(<<scen.b, scen.x>>)
        /\ scen.step = 6 =>
              /\ used = 0 /\ avail = 3
              /\ rb.start = rb.length
              /\ made => ret = PtrRet(<<scen.y>>)

\* The last pop of the scenario has returned, the bytes b, x and x, y being
\* different.
C16_Witness ==
    /\ scen.step = 6
    /\ call.op = "pop"
    /\ call.n = 2
    /\ scen.b # scen.x
    /\ scen.x # scen.y
    /\ Len(ret.data) = 1
====
